---- MODULE Spec2Model ----
(***************************************************************************)
(* Kitsune: the chat orchestration of the Blender add-on.                  *)
(*                                                                         *)
(* State: KitsuneUIProperties (ui.py), the add-on preferences that the     *)
(* operators read (preferences.py), the APIRequestThread workers and the   *)
(* bpy.app.timers callbacks they register (the api package).               *)
(* Texts are sequences of one-character strings; a longer string inside a  *)
(* text is a fixed phrase of the program that holds no whitespace or       *)
(* backtick character of interest.  Collections are 1-based sequences,     *)
(* while the indices kept by the program (active_session_index,            *)
(* scroll_position, session_index) stay 0-based as in the source.          *)
(***************************************************************************)
EXTENDS Integers, Sequences, FiniteSets, TLC

----------------------------------------------------------------------------
\* Bounds of the model

\* sends that pass validation, in the add-on as a whole
MaxRequests == 1
\* sessions ever created
MaxSessions == 3
\* sends that pass validation, in one chat
MaxChatSends == 2
\* calls of add_message on one history, and the greatest history limit tried
MaxAppends == 4
MaxLength == 2
\* characters between the fences of a generated code block
MaxBlockLen == 2
\* calls of add_message on a history long enough to be scrolled
MaxScrollAppends == 17

\* Program constants

VisibleMessages == 15
DefaultMaxConversationLength == 20

----------------------------------------------------------------------------
\* Texts

NoCode == "None"

W_python == <<"p", "y", "t", "h", "o", "n">>
W_bpy == <<"b", "p", "y">>
W_blender == <<"b", "l", "e", "n", "d", "e", "r">>
W_import_bpy == <<"i", "m", "p", "o", "r", "t", " ", "b", "p", "y">>
W_from_bpy == <<"f", "r", "o", "m", " ", "b", "p", "y">>
\* the backtick character
Backtick == "BQ"
Fence == <<Backtick, Backtick, Backtick>>

IsSpace(c) == c \in {" ", "\n"}

Min(a, b) == IF a < b THEN a ELSE b
Max(a, b) == IF a > b THEN a ELSE b

\* str.strip
RECURSIVE LStrip(_)
LStrip(t) == IF t # <<>> /\ IsSpace(Head(t)) THEN LStrip(Tail(t)) ELSE t

RECURSIVE RStrip(_)
RStrip(t) ==
    IF t # <<>> /\ IsSpace(t[Len(t)]) THEN RStrip(SubSeq(t, 1, Len(t) - 1)) ELSE t

Strip(t) == RStrip(LStrip(t))

\* str.startswith at a 1-based position
StartsWithAt(t, i, w) ==
    /\ i + Len(w) - 1 <= Len(t)
    /\ \A k \in 1..Len(w) : t[i + k - 1] = w[k]

\* First index k >= i at which the word w starts, 0 when there is none
RECURSIVE FindFrom(_, _, _)
FindFrom(t, i, w) ==
    IF i + Len(w) - 1 > Len(t) THEN 0
    ELSE IF StartsWithAt(t, i, w) THEN i
    ELSE FindFrom(t, i + 1, w)

\* First index k >= i that holds no whitespace, Len(t) + 1 when there is none
RECURSIVE SkipSpace(_, _)
SkipSpace(t, i) ==
    IF i <= Len(t) /\ IsSpace(t[i]) THEN SkipSpace(t, i + 1) ELSE i

\* The optional language tag (?:python|bpy|blender)? of the pattern
TagLength(t, i) ==
    IF StartsWithAt(t, i, W_python) THEN Len(W_python)
    ELSE IF StartsWithAt(t, i, W_bpy) THEN Len(W_bpy)
    ELSE IF StartsWithAt(t, i, W_blender) THEN Len(W_blender)
    ELSE 0

\* re.findall(pattern, response): the captured groups of the successive
\* non-overlapping matches, scanning from index i
RECURSIVE FindAllFrom(_, _)
FindAllFrom(t, i) ==
    LET s == FindFrom(t, i, Fence)
    IN  IF s = 0 THEN <<>>
        ELSE LET j == SkipSpace(t, s + 3 + TagLength(t, s + 3))
                 k == FindFrom(t, j, Fence)
             IN  IF k = 0 THEN <<>>
                 ELSE <<SubSeq(t, j, k - 1)>> \o FindAllFrom(t, k + 3)

\* max(matches, key=len): the first element of maximal length
RECURSIVE MaxByLenLast(_)
MaxByLenLast(ms) ==
    IF Len(ms) = 1 THEN ms[1]
    ELSE LET r == MaxByLenLast(Tail(ms))
         IN  IF Len(ms[1]) > Len(r) THEN ms[1] ELSE r

RECURSIVE MaxByLen(_)
MaxByLen(ms) ==
    IF Len(ms) = 1 THEN ms[1]
    ELSE LET r == MaxByLen(Tail(ms))
         IN  IF Len(ms[1]) >= Len(r) THEN ms[1] ELSE r

\* Start index of the first line whose strip() starts with 'import bpy' or
\* 'from bpy', scanning the lines from the line that starts at index i
\* (i = Len(t) + 1 is the empty last line); 0 when there is none
RECURSIVE FirstCodeLineAnywhere(_, _)
FirstCodeLineAnywhere(t, i) ==
    LET nl == FindFrom(t, i, <<"\n">>)
        e == IF nl = 0 THEN Len(t) ELSE nl - 1
        line == SubSeq(t, i, e)
    IN  IF FindFrom(line, 1, W_import_bpy) # 0 \/ FindFrom(line, 1, W_from_bpy) # 0
        THEN i
        ELSE IF nl = 0 THEN 0
        ELSE FirstCodeLineAnywhere(t, nl + 1)

RECURSIVE FirstCodeLine(_, _)
FirstCodeLine(t, i) ==
    LET nl == FindFrom(t, i, <<"\n">>)
        e == IF nl = 0 THEN Len(t) ELSE nl - 1
        line == Strip(SubSeq(t, i, e))
    IN  IF StartsWithAt(line, 1, W_import_bpy) \/ StartsWithAt(line, 1, W_from_bpy)
        THEN i
        ELSE IF nl = 0 THEN 0
        ELSE FirstCodeLine(t, nl + 1)

\* The same with the fallback rule tried before the fenced blocks
format_code_fallback_first(response) ==
    LET matches == FindAllFrom(response, 1)
        c == FirstCodeLine(response, 1)
    IN  IF c # 0 THEN SubSeq(response, c, Len(response))
        ELSE IF matches # <<>> THEN Strip(MaxByLen(matches))
        ELSE NoCode

format_code_for_execution(response) ==
    LET matches == FindAllFrom(response, 1)
    IN  IF matches # <<>> THEN Strip(MaxByLen(matches))
        ELSE LET c == FirstCodeLine(response, 1)
             IN  IF c = 0 THEN NoCode ELSE SubSeq(response, c, Len(response))

\* Python truthiness of the extractor's result
Truthy(x) == x # NoCode /\ x # <<>>

----------------------------------------------------------------------------
\* State

VARIABLES
    chat_sessions,            \* KitsuneUIProperties.chat_sessions
    active_session_index,     \* KitsuneUIProperties.active_session_index
    messages,                 \* KitsuneUIProperties.messages (legacy collection)
    chat_input,               \* KitsuneUIProperties.chat_input
    temp_attachment_path,     \* KitsuneUIProperties.temp_attachment_path
    is_processing,            \* KitsuneUIProperties.is_processing
    scroll_position,          \* KitsuneUIProperties.scroll_position
    max_conversation_length,  \* KitsuneAddonPreferences.max_conversation_length
    auto_scroll,              \* KitsuneAddonPreferences.auto_scroll
    api_provider,             \* KitsuneAddonPreferences.api_provider
    has_pending_code,         \* KitsuneUIProperties.has_pending_code
    pending_code,             \* KitsuneUIProperties.pending_code
    clipboard,                \* context.window_manager.clipboard
    threads,                  \* the APIRequestThread objects started so far
    sends,                    \* history: number of sends that passed validation
    nextMid,                  \* history: next message id
    nextSid,                  \* history: next session id
    executed,                 \* history: the codes given to safe_execute_code
    op,                       \* history: the operation of the last step
    ret                       \* history: what it returned or reported

uiVars == <<chat_sessions, active_session_index, messages, chat_input,
            temp_attachment_path, is_processing, scroll_position>>
prefVars == <<max_conversation_length, auto_scroll, api_provider>>
codeVars == <<has_pending_code, pending_code, clipboard, executed>>
histVars == <<sends, nextMid, nextSid, op, ret>>
vars == <<uiVars, prefVars, codeVars, threads, histVars>>

\* The texts a user types, the paths a user attaches, the replies of a model
InputTexts == {<<>>, <<" ">>, <<" ", "a", " ">>}
MessageTexts == {<<>>, <<"b">>}
AttachmentPaths == {"", "/tmp/a.png"}
ResponseTexts ==
    { <<"o", "k">>,
      Fence \o W_bpy \o <<"\n", "x", "\n">> \o Fence,
      W_import_bpy }
Providers == {"anthropic", "google", "deepseek", "openai"}

NumSessions == Len(chat_sessions)

\* KitsuneChatSession, with the id the model gives it
NewSession(sid) == [sid |-> sid, messages |-> <<>>]

\* KitsuneChatMessage; owner and req record the session that was active and
\* the request that was served when the message was appended
NewMessage(mid, text, is_user, attachment_path, owner, req) ==
    [mid |-> mid, message |-> text, is_user |-> is_user,
     has_code |-> FALSE, code |-> <<>>,
     has_attachments |-> attachment_path # "",
     owner |-> owner, req |-> req]

ActiveIndexValid == active_session_index + 1 \in DOMAIN chat_sessions

\* "active_session.messages if ... len(active_session.messages) > 0 else
\* ui_props.messages": TRUE when the session's own collection is chosen
UsesSessionMessagesAlways == TRUE

UsesSessionMessages ==
    Len(chat_sessions[active_session_index + 1].messages) > 0

\* The collection add_message and handle_response operate on
CurrentMessages ==
    IF UsesSessionMessages
    THEN chat_sessions[active_session_index + 1].messages
    ELSE messages

\* "for _ in range(excess): messages.remove(0)"
EvictNewest(msgs, max_length) ==
    IF max_length > 0 /\ Len(msgs) > max_length
    THEN SubSeq(msgs, 1, max_length)
    ELSE msgs

Evict(msgs, max_length) ==
    IF max_length > 0 /\ Len(msgs) > max_length
    THEN SubSeq(msgs, Len(msgs) - max_length + 1, Len(msgs))
    ELSE msgs

\* add_message: the collections and the scroll position after the call.
\* An IndexError of the session lookup is swallowed by its except clause.
add_message(m) ==
    IF ~ActiveIndexValid
    THEN [chat_sessions |-> chat_sessions, messages |-> messages,
          scroll_position |-> scroll_position]
    ELSE
      LET added == Append(CurrentMessages, m)
          kept == Evict(added, max_conversation_length)
      IN  [chat_sessions |->
               IF UsesSessionMessages
               THEN [chat_sessions EXCEPT ![active_session_index + 1].messages = kept]
               ELSE chat_sessions,
           messages |-> IF UsesSessionMessages THEN messages ELSE kept,
           scroll_position |->
               IF auto_scroll THEN Max(0, Len(added) - VisibleMessages)
               ELSE scroll_position]

ActiveSid == chat_sessions[active_session_index + 1].sid

\* The defaults of has_pending_code and pending_code, an empty clipboard and
\* no code executed
InitCode ==
    /\ has_pending_code = FALSE
    /\ pending_code = <<>>
    /\ clipboard = <<>>
    /\ executed = <<>>

\* The registered property groups with their defaults
Init ==
    /\ InitCode
    /\ chat_sessions = <<>>
    /\ active_session_index = 0
    /\ messages = <<>>
    /\ chat_input = <<>>
    /\ temp_attachment_path = ""
    /\ is_processing = FALSE
    /\ scroll_position = 0
    /\ max_conversation_length = DefaultMaxConversationLength
    /\ auto_scroll = TRUE
    /\ api_provider = "anthropic"
    /\ threads = <<>>
    /\ sends = 0
    /\ nextMid = 1
    /\ nextSid = 1
    /\ op = "init"
    /\ ret = "none"

----------------------------------------------------------------------------
\* Session operators of the panel

\* KITSUNE_PT_chat_panel.draw: creates the first session and repairs the index
DrawPanel ==
    LET sessions == IF chat_sessions = <<>>
                    THEN <<NewSession(nextSid)>> ELSE chat_sessions
    IN  /\ chat_sessions' = sessions
        /\ nextSid' = IF chat_sessions = <<>> THEN nextSid + 1 ELSE nextSid
        /\ active_session_index' =
               IF active_session_index >= Len(sessions) THEN 0
               ELSE active_session_index
        /\ op' = "draw"
        /\ ret' = "none"
        /\ UNCHANGED <<codeVars, messages, chat_input, temp_attachment_path, is_processing,
                       scroll_position, prefVars, threads, sends, nextMid>>

\* KITSUNE_OT_new_chat.execute
NewChat ==
    /\ nextSid <= MaxSessions
    /\ chat_sessions' = Append(chat_sessions, NewSession(nextSid))
    /\ nextSid' = nextSid + 1
    /\ active_session_index' = Len(chat_sessions')  - 1
    /\ op' = "new_chat"
    /\ ret' = "FINISHED"
    /\ UNCHANGED <<codeVars, messages, chat_input, temp_attachment_path, is_processing,
                   scroll_position, prefVars, threads, sends, nextMid>>

\* bpy_prop_collection.remove(index): an index outside the collection
\* removes nothing
Remove(coll, index) ==
    IF index >= 0 /\ index < Len(coll)
    THEN SubSeq(coll, 1, index) \o SubSeq(coll, index + 2, Len(coll))
    ELSE coll

\* "Adjust active index if needed"
AdjustActiveIndexNever(index, length) == index

AdjustActiveIndex(index, length) ==
    IF index >= length THEN length - 1 ELSE index

\* "Don't allow deleting the last session"
IsLastSessionNever(sessions) == FALSE

IsLastSession(sessions) == Len(sessions) <= 1

\* KITSUNE_OT_delete_chat.execute
DeleteChat(session_index) ==
    /\ op' = "delete_chat"
    /\ IF IsLastSession(chat_sessions)
       THEN /\ ret' = "CANCELLED"
            /\ UNCHANGED <<chat_sessions, active_session_index>>
       ELSE /\ chat_sessions' = Remove(chat_sessions, session_index)
            /\ active_session_index' =
                   AdjustActiveIndex(active_session_index, Len(chat_sessions'))
            /\ ret' = "FINISHED"
    /\ UNCHANGED <<codeVars, messages, chat_input, temp_attachment_path, is_processing,
                   scroll_position, prefVars, threads, sends, nextMid,
                   nextSid>>

\* template_list of draw_chat_view: shown when there are several sessions,
\* the user picks one of them
SelectSession(i) ==
    /\ NumSessions > 1
    /\ i \in 0..(NumSessions - 1)
    /\ active_session_index' = i
    /\ op' = "select_session"
    /\ ret' = "none"
    /\ UNCHANGED <<codeVars, chat_sessions, messages, chat_input, temp_attachment_path,
                   is_processing, scroll_position, prefVars, threads, sends, nextMid, nextSid>>

\* The chat_input field of the panel; draw_chat_view disables the input
\* container while a request is processed
EditInput(t) ==
    /\ ~is_processing
    /\ chat_input' = t
    /\ op' = "edit_input"
    /\ ret' = "none"
    /\ UNCHANGED <<codeVars, chat_sessions, active_session_index, messages,
                   temp_attachment_path, is_processing, scroll_position, prefVars,
                   threads, sends, nextMid, nextSid>>

\* KITSUNE_OT_attach_file.execute and KITSUNE_OT_clear_attachment.execute
AttachFile(path) ==
    /\ ~is_processing
    /\ temp_attachment_path' = path
    /\ op' = IF path = "" THEN "clear_attachment" ELSE "attach_file"
    /\ ret' = "FINISHED"
    /\ UNCHANGED <<codeVars, chat_sessions, active_session_index, messages, chat_input,
                   is_processing, scroll_position, prefVars, threads, sends, nextMid, nextSid>>

\* KITSUNE_OT_clear_chat.execute: clears the collection of the active session
ClearChat ==
    /\ op' = "clear_chat"
    /\ IF ActiveIndexValid
       THEN /\ chat_sessions' =
                   [chat_sessions EXCEPT ![active_session_index + 1].messages = <<>>]
            /\ scroll_position' = 0
            /\ has_pending_code' = FALSE
            /\ pending_code' = <<>>
            /\ ret' = "FINISHED"
       ELSE /\ UNCHANGED <<chat_sessions, scroll_position, has_pending_code,
                           pending_code>>
            /\ ret' = "CANCELLED"
    /\ UNCHANGED <<clipboard, executed>>
    /\ UNCHANGED <<active_session_index, messages, chat_input,
                   temp_attachment_path, is_processing, prefVars, threads,
                   sends, nextMid, nextSid>>

\* IntProperty(min=0) of scroll_position: a value assigned below the
\* minimum is clamped to it
ClampScrollPosition(v) == Max(0, v)

ScrollDirections == {"UP", "DOWN", "TOP", "BOTTOM"}

\* KITSUNE_OT_scroll_chat.execute: measures the collection of the active
\* session; the session lookup is not guarded, so an IndexError escapes
ScrollChat(direction) ==
    /\ op' = "scroll_chat"
    /\ IF ActiveIndexValid
       THEN LET n == Len(chat_sessions[active_session_index + 1].messages)
            IN  /\ scroll_position' = ClampScrollPosition(
                       CASE direction = "UP" -> Max(0, scroll_position - 5)
                         [] direction = "DOWN" -> Min(n - 1, scroll_position + 5)
                         [] direction = "TOP" -> 0
                         [] direction = "BOTTOM" -> Max(0, n - VisibleMessages))
                /\ ret' = "FINISHED"
       ELSE /\ scroll_position' = scroll_position
            /\ ret' = "EXCEPTION"
    /\ UNCHANGED <<codeVars, chat_sessions, active_session_index, messages,
                   chat_input, temp_attachment_path, is_processing, prefVars,
                   threads, sends, nextMid, nextSid>>

\* The values of max_conversation_length a user sets: unlimited, the
\* smallest limits and the default
ConversationLengths == {0, DefaultMaxConversationLength} \cup 1..MaxLength

\* The Chat Settings of KitsuneAddonPreferences.draw
SetMaxConversationLength(m) ==
    /\ m # max_conversation_length
    /\ max_conversation_length' = m
    /\ op' = "set_max_conversation_length"
    /\ ret' = "none"
    /\ UNCHANGED <<codeVars, uiVars, auto_scroll, api_provider, threads, sends,
                   nextMid, nextSid>>

SetAutoScroll(b) ==
    /\ b # auto_scroll
    /\ auto_scroll' = b
    /\ op' = "set_auto_scroll"
    /\ ret' = "none"
    /\ UNCHANGED <<codeVars, uiVars, max_conversation_length, api_provider,
                   threads, sends, nextMid, nextSid>>

----------------------------------------------------------------------------
\* kitsune.send_message

\* What get_active_provider and validate_provider_api_key can report
ValidationOutcomes == {"ok", "no_provider", "key_unset", "key_invalid"}

\* Whether create_context_info or the creation of the thread raises, after the
\* processing flag is set
SendFaults == {"none", "raised"}

\* "if not provider" and "if not is_valid" of execute
PassesValidationNoKeyCheck(v) == v \in {"ok", "key_unset"}

PassesValidation(v) == v = "ok"

\* "self.message if self.message else ui_props.chat_input.strip()"
MessageToSend(message, input) == IF message # <<>> THEN message ELSE Strip(input)

\* APIRequestThread.__init__ and start
NewThread(provider, prompt, mid, sid) ==
    [provider |-> provider, prompt |-> prompt, st |-> "running",
     registered |-> 0, pending |-> <<>>, applied |-> 0,
     mid |-> mid, sid |-> sid]

\* KITSUNE_OT_send_message.execute, entered with chat_input = input and the
\* operator property message; name tells the caller, ret what execute returned
SendMessageExecute(input, message, v, fault, name) ==
    LET text == MessageToSend(message, input)
    IN
    /\ op' = name
    /\ IF text = <<>>
       THEN /\ ret' = "CANCELLED_EMPTY"
            /\ chat_input' = input
            /\ UNCHANGED <<chat_sessions, messages, temp_attachment_path,
                           is_processing, scroll_position, threads, sends, nextMid>>
       ELSE IF ~PassesValidation(v)
       THEN /\ ret' = "CANCELLED_VALIDATION"
            /\ chat_input' = input
            /\ UNCHANGED <<chat_sessions, messages, temp_attachment_path,
                           is_processing, scroll_position, threads, sends, nextMid>>
       ELSE IF ~ActiveIndexValid
       THEN /\ ret' = "CANCELLED_EXCEPTION"
            /\ chat_input' = input
            /\ UNCHANGED <<chat_sessions, messages, temp_attachment_path,
                           is_processing, scroll_position, threads, sends, nextMid>>
       ELSE LET m == NewMessage(nextMid, text, TRUE, temp_attachment_path,
                                ActiveSid, Len(threads) + 1)
                a == add_message(m)
            IN  /\ sends' = sends + 1
                /\ chat_sessions' = a.chat_sessions
                /\ messages' = a.messages
                /\ scroll_position' = a.scroll_position
                /\ nextMid' = nextMid + 1
                /\ chat_input' = <<>>
                /\ temp_attachment_path' = ""
                /\ is_processing' = TRUE
                /\ IF fault = "none"
                   THEN /\ threads' = Append(threads,
                                NewThread(api_provider, text, nextMid, ActiveSid))
                        /\ ret' = "FINISHED"
                   ELSE /\ threads' = threads
                        /\ ret' = "CANCELLED_EXCEPTION"
    /\ UNCHANGED <<codeVars, active_session_index, prefVars, nextSid>>

\* The Send button of the panel, or bpy.ops.kitsune.send_message(message=...)
SendMessage(message, v, fault) ==
    SendMessageExecute(chat_input, message, v, fault, "send_message")

\* KITSUNE_OT_send_from_dialog.execute with the dialog's input_text: a text
\* that is not blank is stored in chat_input and sent with send_message
SendFromDialog(input_text, v, fault) ==
    IF Strip(input_text) # <<>>
    THEN SendMessageExecute(input_text, <<>>, v, fault, "send_from_dialog")
    ELSE /\ op' = "send_from_dialog"
         /\ ret' = "FINISHED"
         /\ UNCHANGED <<codeVars, uiVars, prefVars, threads, sends, nextMid, nextSid>>

----------------------------------------------------------------------------
\* Provider adapters and the worker thread

\* What a provider call can meet: a fault before the try block (the lookup
\* of the preferences), the stored API key, the outcome of requests.post,
\* the HTTP status and the shape of the body ("part_without_text": the body
\* has the structure that leads to the text, and no text at its end)
Environments ==
    [fault : {"none", "prefs"},
     api_key : BOOLEAN,
     net : {"response", "timeout", "exception"},
     status : {200, 401, 500},
     payload : {"text", "part_without_text", "no_text", "error_envelope",
                "not_json"},
     text : ResponseTexts]

\* The environments the whole add-on is run against: one of each class of
\* completion
SampleEnvironments ==
    { env \in Environments :
        /\ env.text = Fence \o W_bpy \o <<"\n", "x", "\n">> \o Fence
        /\ \/ env.fault = "prefs" /\ env.api_key /\ env.net = "response"
              /\ env.status = 200 /\ env.payload = "text"
           \/ env.fault = "none" /\ env.api_key /\ env.net = "response"
              /\ <<env.status, env.payload>> \in
                     {<<200, "text">>, <<401, "error_envelope">>}
}

ProviderName(provider) ==
    CASE provider = "anthropic" -> "Anthropic"
      [] provider = "google" -> "Google Gemini"
      [] provider = "deepseek" -> "DeepSeek"
      [] provider = "openai" -> "OpenAI"

StatusText(status) ==
    CASE status = 200 -> "200" [] status = 401 -> "401" [] status = 500 -> "500"

Response(text) == [kind |-> "response", text |-> text]
Error(detail) == [kind |-> "error", text |-> detail]

\* The completion of "except requests.exceptions.Timeout"
TimeoutErrorAsOther(provider) ==
    Error(<<"Error communicating with ", ProviderName(provider),
            " API: ", "exception">>)

TimeoutError(provider) ==
    Error(<<"Request to ", ProviderName(provider), " API timed out.">>)

\* The error message built after "If we get here, something went wrong"
ApiErrorMessage(provider, env) ==
    CASE env.payload = "error_envelope" ->
             <<ProviderName(provider), " API error: ", "vendor message">>
      [] env.payload = "not_json" ->
             <<ProviderName(provider), " API error: ", StatusText(env.status),
               " - ", "body">>
      [] OTHER ->
             <<ProviderName(provider), " API error: ", StatusText(env.status)>>

\* The 200 branch of AnthropicProvider.send_request: a usable body registers
\* the response and returns, any other body falls through to the error report
AnthropicOn200(env) ==
    IF env.payload = "text" THEN <<Response(env.text)>>
    ELSE IF env.payload = "part_without_text" THEN <<Response(<<>>)>>
    ELSE <<Error(ApiErrorMessage("anthropic", env))>>

\* The 200 branch of the Google, DeepSeek and OpenAI providers: Google
\* indexes the text of the first part, the two others test the content
OtherOn200(provider, env) ==
    IF env.payload = "text" THEN <<Response(env.text)>>
    ELSE IF env.payload = "part_without_text" /\ provider = "google"
    THEN <<Error(<<"Error communicating with ", ProviderName(provider),
                   " API: ", "exception">>)>>
    ELSE <<Error(<<"Unexpected response structure from ",
                   ProviderName(provider), " API">>)>>

\* The same with the return after the registration of the response missing
send_request_falls_through(provider, env) ==
    IF env.fault = "prefs"
    THEN [registered |-> <<>>, raised |-> TRUE]
    ELSE [raised |-> FALSE, registered |->
      IF ~env.api_key
      THEN <<Error(<<"No API key provided for ", ProviderName(provider), ".">>)>>
      ELSE IF env.net = "timeout"
      THEN <<TimeoutError(provider)>>
      ELSE IF env.net = "exception"
      THEN <<Error(<<"Error communicating with ", ProviderName(provider),
                     " API: ", "exception">>)>>
      ELSE IF env.status = 200 /\ env.payload = "not_json"
      THEN <<Error(<<"Error communicating with ", ProviderName(provider),
                     " API: ", "exception">>)>>
      ELSE IF env.status = 200 /\ env.payload = "text"
      THEN <<Response(env.text), Error(ApiErrorMessage(provider, env))>>
      ELSE IF env.status = 200
      THEN IF provider = "anthropic" THEN AnthropicOn200(env)
           ELSE OtherOn200(provider, env)
      ELSE <<Error(ApiErrorMessage(provider, env))>>]

\* send_request of the four providers: the completions it registers with
\* bpy.app.timers.register, in order, and whether an exception escapes it
send_request(provider, env) ==
    IF env.fault = "prefs"
    THEN [registered |-> <<>>, raised |-> TRUE]
    ELSE [raised |-> FALSE, registered |->
      IF ~env.api_key
      THEN <<Error(<<"No API key provided for ", ProviderName(provider), ".">>)>>
      ELSE IF env.net = "timeout"
      THEN <<TimeoutError(provider)>>
      ELSE IF env.net = "exception"
      THEN <<Error(<<"Error communicating with ", ProviderName(provider),
                     " API: ", "exception">>)>>
      ELSE IF env.status = 200 /\ env.payload = "not_json"
      THEN <<Error(<<"Error communicating with ", ProviderName(provider),
                     " API: ", "exception">>)>>
      ELSE IF env.status = 200
      THEN IF provider = "anthropic" THEN AnthropicOn200(env)
           ELSE OtherOn200(provider, env)
      ELSE <<Error(ApiErrorMessage(provider, env))>>]

\* APIRequestThread.run: an exception that escapes send_request is turned
\* into one more registered error completion
run(provider, env) ==
    LET r == send_request(provider, env)
    IN  IF r.raised
        THEN r.registered \o <<Error(<<"exception">>)>>
        ELSE r.registered

\* The worker thread of request r runs to its end
WorkerRunCallsBack(r, env) ==
    /\ r \in DOMAIN threads
    /\ threads[r].st = "running"
    /\ LET done == run(threads[r].provider, env)
       IN  threads' = [threads EXCEPT
               ![r].st = "finished",
               ![r].registered = @ + Len(done),
               ![r].applied = @ + Len(done)]
    /\ is_processing' = FALSE
    /\ op' = "worker_run"
    /\ ret' = "none"
    /\ UNCHANGED <<codeVars, chat_sessions, active_session_index, messages,
                   chat_input, temp_attachment_path, scroll_position, prefVars,
                   sends, nextMid, nextSid>>

WorkerRun(r, env) ==
    /\ r \in DOMAIN threads
    /\ threads[r].st = "running"
    /\ LET done == run(threads[r].provider, env)
       IN  threads' = [threads EXCEPT
               ![r].st = "finished",
               ![r].registered = @ + Len(done),
               ![r].pending = @ \o done]
    /\ op' = "worker_run"
    /\ ret' = "none"
    /\ UNCHANGED <<codeVars, uiVars, prefVars, sends, nextMid, nextSid>>

----------------------------------------------------------------------------
\* The completion callback

\* The Assistant message of an error completion: "Error: " and the detail
ErrorMessageBare(mid, detail, owner, req) ==
    NewMessage(mid, detail, FALSE, "", owner, req)

ErrorMessage(mid, detail, owner, req) ==
    NewMessage(mid, <<"Error: ">> \o detail, FALSE, "", owner, req)

\* The Assistant message of a successful reply, with the extracted code
ReplyMessageNoCode(mid, text, owner, req) ==
    NewMessage(mid, text, FALSE, "", owner, req)

ReplyMessage(mid, text, owner, req) ==
    LET extracted_code == format_code_for_execution(text)
        m == NewMessage(mid, text, FALSE, "", owner, req)
    IN  IF Truthy(extracted_code)
        THEN [m EXCEPT !.has_code = TRUE, !.code = extracted_code]
        ELSE m

\* KITSUNE_OT_send_message.handle_response(result), called for request r;
\* context_is_none is the outcome of its test "bpy.context is None"
handle_response(result, r, context_is_none) ==
    IF context_is_none \/ ~ActiveIndexValid
    THEN /\ ret' = IF context_is_none THEN "RETURNED_EARLY" ELSE "EXCEPTION"
         /\ UNCHANGED <<chat_sessions, messages, is_processing, scroll_position,
                        nextMid>>
    ELSE
      /\ is_processing' = FALSE
      /\ nextMid' = nextMid + 1
      /\ IF result.kind = "error"
         THEN LET a == add_message(ErrorMessage(nextMid, result.text, ActiveSid, r))
              IN  /\ chat_sessions' = a.chat_sessions
                  /\ messages' = a.messages
                  /\ scroll_position' = a.scroll_position
                  /\ ret' = "ERROR_SHOWN"
         ELSE LET m == ReplyMessage(nextMid, result.text, ActiveSid, r)
                  added == Append(CurrentMessages, m)
              IN  /\ chat_sessions' =
                         IF UsesSessionMessages
                         THEN [chat_sessions EXCEPT
                                  ![active_session_index + 1].messages = added]
                         ELSE chat_sessions
                  /\ messages' = IF UsesSessionMessages THEN messages ELSE added
                  /\ scroll_position' =
                         IF auto_scroll THEN Max(0, Len(added) - VisibleMessages)
                         ELSE scroll_position
                  /\ ret' = "RESPONSE_SHOWN"

\* A timer registered by the worker of request r fires on the UI thread: the
\* lambda calls handle_response and returns None, so it is not run again
TimerFireExecutesCode(r, context_is_none) ==
    /\ r \in DOMAIN threads
    /\ threads[r].pending # <<>>
    /\ handle_response(Head(threads[r].pending), r, context_is_none)
    /\ threads' = [threads EXCEPT ![r].pending = Tail(@), ![r].applied = @ + 1]
    /\ op' = "handle_response"
    /\ LET result == Head(threads[r].pending)
           extracted_code == format_code_for_execution(result.text)
       IN  executed' = IF result.kind = "response" /\ Truthy(extracted_code)
                       THEN Append(executed, extracted_code)
                       ELSE executed
    /\ UNCHANGED <<has_pending_code, pending_code, clipboard,
                   active_session_index, chat_input, temp_attachment_path,
                   prefVars, sends, nextSid>>

TimerFire(r, context_is_none) ==
    /\ r \in DOMAIN threads
    /\ threads[r].pending # <<>>
    /\ handle_response(Head(threads[r].pending), r, context_is_none)
    /\ threads' = [threads EXCEPT ![r].pending = Tail(@), ![r].applied = @ + 1]
    /\ op' = "handle_response"
    /\ UNCHANGED <<codeVars, active_session_index, chat_input, temp_attachment_path,
                   prefVars, sends, nextSid>>

----------------------------------------------------------------------------
\* The operators of generated code

\* KITSUNE_OT_preview_code.execute: resolves message_index against the
\* collection of the active session
PreviewCode(message_index) ==
    /\ op' = "preview_code"
    /\ IF ~ActiveIndexValid
       THEN /\ ret' = "CANCELLED_EXCEPTION"
            /\ UNCHANGED <<has_pending_code, pending_code>>
       ELSE LET msgs == chat_sessions[active_session_index + 1].messages
            IN  IF message_index < 0 \/ message_index >= Len(msgs)
                THEN /\ ret' = "CANCELLED_INDEX"
                     /\ UNCHANGED <<has_pending_code, pending_code>>
                ELSE IF ~msgs[message_index + 1].has_code
                        \/ msgs[message_index + 1].code = <<>>
                THEN /\ ret' = "CANCELLED_NO_CODE"
                     /\ UNCHANGED <<has_pending_code, pending_code>>
                ELSE /\ pending_code' = msgs[message_index + 1].code
                     /\ has_pending_code' = TRUE
                     /\ ret' = "FINISHED"
    /\ UNCHANGED <<uiVars, prefVars, clipboard, executed, threads, sends,
                   nextMid, nextSid>>

\* KITSUNE_OT_copy_code.execute: resolves message_index against the legacy
\* collection
CopyCode(message_index) ==
    /\ op' = "copy_code"
    /\ IF message_index < 0 \/ message_index >= Len(messages)
       THEN /\ ret' = "CANCELLED_INDEX"
            /\ clipboard' = clipboard
       ELSE IF ~messages[message_index + 1].has_code
               \/ messages[message_index + 1].code = <<>>
       THEN /\ ret' = "CANCELLED_NO_CODE"
            /\ clipboard' = clipboard
       ELSE /\ clipboard' = messages[message_index + 1].code
            /\ ret' = "FINISHED"
    /\ UNCHANGED <<uiVars, prefVars, has_pending_code, pending_code, executed,
                   threads, sends, nextMid, nextSid>>

\* KITSUNE_OT_execute_code.execute, where would_succeed tells whether the
\* pending code runs without an error.  The name utils is local to execute,
\* bound only by the import of its except clause, so the call of
\* utils.safe_execute_code raises UnboundLocalError before the code is run
\* and the except clause returns CANCELLED
ExecuteCode(would_succeed) ==
    /\ op' = "execute_code"
    /\ ret' = IF ~has_pending_code \/ pending_code = <<>>
              THEN "CANCELLED_NO_CODE"
              ELSE "CANCELLED_EXCEPTION"
    /\ UNCHANGED <<uiVars, prefVars, codeVars, threads, sends, nextMid, nextSid>>

\* KITSUNE_OT_cancel_code.execute
CancelCode ==
    /\ has_pending_code' = FALSE
    /\ pending_code' = <<>>
    /\ op' = "cancel_code"
    /\ ret' = "FINISHED"
    /\ UNCHANGED <<uiVars, prefVars, clipboard, executed, threads, sends,
                   nextMid, nextSid>>

----------------------------------------------------------------------------
\* The chat of the add-on as a whole: the panel, the session list, the
\* sends and their completions

Sends ==
    \/ \E message \in MessageTexts, v \in ValidationOutcomes, fault \in SendFaults :
           SendMessage(message, v, fault)
    \/ \E t \in InputTexts, v \in ValidationOutcomes, fault \in SendFaults :
           SendFromDialog(t, v, fault)

Completions ==
    \/ \E r \in DOMAIN threads, env \in SampleEnvironments : WorkerRun(r, env)
    \/ \E r \in DOMAIN threads, c \in BOOLEAN : TimerFire(r, c)

Next ==
    \/ DrawPanel
    \/ NewChat
    \/ \E i \in -1..MaxSessions : DeleteChat(i)
    \/ \E i \in 0..(MaxSessions - 1) : SelectSession(i)
    \/ \E t \in InputTexts : EditInput(t)
    \/ \E path \in AttachmentPaths : AttachFile(path)
    \/ ClearChat
    \/ sends < MaxRequests /\ Sends
    \/ Completions

Spec == Init /\ [][Next]_vars

----------------------------------------------------------------------------
\* One chat: the first session, and sends that may overlap

NextChat ==
    \/ DrawPanel
    \/ \E t \in InputTexts : EditInput(t)
    \/ \E path \in AttachmentPaths : AttachFile(path)
    \/ ClearChat
    \/ sends < MaxChatSends /\ Sends
    \/ Completions

SpecChat == Init /\ [][NextChat]_vars

----------------------------------------------------------------------------
\* The session list: every operator on it, with sends of one text made with
\* the message property and answered by a reply that carries code

NextSessions ==
    \/ DrawPanel
    \/ NewChat
    \/ \E i \in -1..MaxSessions : DeleteChat(i)
    \/ \E i \in 0..(MaxSessions - 1) : SelectSession(i)
    \/ ClearChat
    \/ /\ sends < MaxRequests
       /\ \E v \in ValidationOutcomes : SendMessage(<<"b">>, v, "none")
    \/ \E r \in DOMAIN threads :
           \E env \in {e \in SampleEnvironments : e.fault = "none" /\ e.status = 200} :
               WorkerRun(r, env)
    \/ \E r \in DOMAIN threads : TimerFire(r, FALSE)

SpecSessions == Init /\ [][NextSessions]_vars

----------------------------------------------------------------------------
\* One request from the send to its completion, for every provider and
\* every environment of the provider call

InitProviders ==
    /\ InitCode
    /\ chat_sessions = <<NewSession(1)>>
    /\ active_session_index = 0
    /\ messages = <<>>
    /\ chat_input \in InputTexts
    /\ temp_attachment_path \in AttachmentPaths
    /\ is_processing = FALSE
    /\ scroll_position = 0
    /\ max_conversation_length = DefaultMaxConversationLength
    /\ auto_scroll = TRUE
    /\ api_provider \in Providers
    /\ threads = <<>>
    /\ sends = 0
    /\ nextMid = 1
    /\ nextSid = 2
    /\ op = "init"
    /\ ret = "none"

NextProviders ==
    \/ sends < MaxRequests /\ Sends
    \/ \E r \in DOMAIN threads, env \in Environments : WorkerRun(r, env)
    \/ \E r \in DOMAIN threads, c \in BOOLEAN : TimerFire(r, c)

SpecProviders == InitProviders /\ [][NextProviders]_vars

----------------------------------------------------------------------------
\* Calls of add_message on one history, for every history limit

InitAppend ==
    /\ InitCode
    /\ chat_sessions = <<NewSession(1)>>
    /\ active_session_index = 0
    /\ messages = <<>>
    /\ chat_input = <<>>
    /\ temp_attachment_path = ""
    /\ is_processing = FALSE
    /\ scroll_position = 0
    /\ max_conversation_length \in 1..MaxLength
    /\ auto_scroll \in BOOLEAN
    /\ api_provider = "anthropic"
    /\ threads = <<>>
    /\ sends = 0
    /\ nextMid = 1
    /\ nextSid = 2
    /\ op = "init"
    /\ ret = "none"

\* self.add_message(context, message_text, is_user, attachment_path)
AddMessage(message_text, is_user, attachment_path) ==
    /\ LET a == add_message(NewMessage(nextMid, message_text, is_user,
                                       attachment_path, ActiveSid, 0))
       IN  /\ chat_sessions' = a.chat_sessions
           /\ messages' = a.messages
           /\ scroll_position' = a.scroll_position
    /\ nextMid' = nextMid + 1
    /\ op' = "add_message"
    /\ ret' = "none"
    /\ UNCHANGED <<codeVars, active_session_index, chat_input, temp_attachment_path,
                   is_processing, prefVars, threads, sends, nextSid>>

NextAppend ==
    /\ nextMid <= MaxAppends
    /\ \E t \in {<<"a">>, <<"b">>}, is_user \in BOOLEAN, path \in AttachmentPaths :
           AddMessage(t, is_user, path)

SpecAppend == InitAppend /\ [][NextAppend]_vars

----------------------------------------------------------------------------
\* The texts of a send: chat_input and the message property, blank ones
\* included

BlankTexts == {<<>>, <<" ">>, <<"\n", " ">>}

NextInput ==
    \/ \E t \in InputTexts : EditInput(t)
    \/ /\ sends < MaxRequests
       /\ \E message \in MessageTexts \cup BlankTexts, v \in ValidationOutcomes,
             fault \in SendFaults :
              SendMessage(message, v, fault)
    \/ /\ sends < MaxRequests
       /\ \E t \in InputTexts \cup BlankTexts, v \in ValidationOutcomes,
             fault \in SendFaults :
              SendFromDialog(t, v, fault)

SpecInput == InitProviders /\ [][NextInput]_vars

----------------------------------------------------------------------------
\* The code extractor: one request whose worker has registered a reply, for
\* every reply text of a bounded family, applied by handle_response

BlockContents == UNION {[1..k -> {"a", " "}] : k \in 0..MaxBlockLen}

FencedTexts ==
    {Fence \o c \o Fence : c \in BlockContents}
    \cup {Fence \o c \o Fence \o <<"\n">> \o Fence \o d \o Fence :
              c \in BlockContents, d \in BlockContents}
    \cup {<<"a", "\n">> \o Fence \o W_python \o <<"\n">> \o c \o <<"\n">> \o Fence :
              c \in BlockContents}

ProseTexts ==
    {pre \o w \o post :
        pre \in {<<>>, <<" ">>, <<"a", " ">>, <<"a", "\n", " ">>},
        w \in {W_import_bpy, W_from_bpy, W_bpy, <<"b">>},
        post \in {<<>>, <<"\n", "a">>}}

\* Replies with an import line and a fence: a block after or before the
\* line, a fence that is never closed, and two import lines
MixedTexts ==
    {W_import_bpy \o <<"\n">> \o Fence \o c \o Fence : c \in BlockContents}
    \cup {Fence \o c \o Fence \o <<"\n">> \o W_from_bpy : c \in BlockContents}
    \cup {Fence \o <<"a", "\n">> \o W_import_bpy,
          <<"a", "\n">> \o W_from_bpy \o <<"\n", " ">> \o W_import_bpy}

ExtractTexts == FencedTexts \cup ProseTexts \cup MixedTexts

InitExtract ==
    /\ InitCode
    /\ chat_sessions = <<NewSession(1)>>
    /\ active_session_index = 0
    /\ messages = <<NewMessage(1, <<"b">>, TRUE, "", 1, 1)>>
    /\ chat_input = <<>>
    /\ temp_attachment_path = ""
    /\ is_processing = TRUE
    /\ scroll_position = 0
    /\ max_conversation_length = DefaultMaxConversationLength
    /\ auto_scroll = TRUE
    /\ api_provider = "anthropic"
    /\ \E t \in ExtractTexts :
           threads = <<[NewThread("anthropic", <<"b">>, 1, 1) EXCEPT
                           !.st = "finished", !.registered = 1,
                           !.pending = <<Response(t)>>]>>
    /\ sends = 1
    /\ nextMid = 2
    /\ nextSid = 2
    /\ op = "worker_run"
    /\ ret = "none"

NextExtract == TimerFire(1, FALSE)

SpecExtract == InitExtract /\ [][NextExtract]_vars

----------------------------------------------------------------------------
\* One request under fair scheduling: a started thread runs to its end, and
\* a registered timer is run by the event loop

\* One environment of each class of completion, with a short reply
LiveEnvironments ==
    { env \in Environments :
        /\ env.text = <<"o", "k">>
        /\ env.api_key /\ env.net = "response"
        /\ \/ env.fault = "prefs" /\ env.status = 200 /\ env.payload = "text"
           \/ env.fault = "none"
              /\ <<env.status, env.payload>> \in
                     {<<200, "text">>, <<401, "error_envelope">>} }

NextLive ==
    \/ sends < MaxRequests /\ Sends
    \/ \E r \in DOMAIN threads, env \in LiveEnvironments : WorkerRun(r, env)
    \/ \E r \in DOMAIN threads, c \in BOOLEAN : TimerFire(r, c)

Fairness ==
    \A r \in 1..MaxRequests :
        /\ WF_vars(\E env \in LiveEnvironments : WorkerRun(r, env))
        /\ WF_vars(\E c \in BOOLEAN : TimerFire(r, c))

SpecLive == InitProviders /\ [][NextLive]_vars /\ Fairness

----------------------------------------------------------------------------
\* One started request, from the run of its worker to the completion
\* applied, for every provider and every environment of the provider call

InitWorker ==
    /\ InitCode
    /\ chat_sessions = <<NewSession(1)>>
    /\ active_session_index = 0
    /\ messages = <<NewMessage(1, <<"b">>, TRUE, "", 1, 1)>>
    /\ chat_input = <<>>
    /\ temp_attachment_path = ""
    /\ is_processing = TRUE
    /\ scroll_position = 0
    /\ max_conversation_length = DefaultMaxConversationLength
    /\ auto_scroll = TRUE
    /\ api_provider \in Providers
    /\ threads = <<NewThread(api_provider, <<"b">>, 1, 1)>>
    /\ sends = 1
    /\ nextMid = 2
    /\ nextSid = 2
    /\ op = "send_message"
    /\ ret = "FINISHED"

NextWorker ==
    \/ \E env \in Environments : WorkerRun(1, env)
    \/ \E c \in BOOLEAN : TimerFire(1, c)

SpecWorker == InitWorker /\ [][NextWorker]_vars

----------------------------------------------------------------------------
\* One chat with a small history limit: sends of one text, each answered by
\* a reply or by an error

NextHistory ==
    \/ /\ sends < MaxChatSends
       /\ SendMessage(<<"b">>, "ok", "none")
    \/ \E r \in DOMAIN threads :
           \E env \in {e \in SampleEnvironments : e.fault = "none"} :
               WorkerRun(r, env)
    \/ \E r \in DOMAIN threads : TimerFire(r, FALSE)

SpecHistory == InitAppend /\ [][NextHistory]_vars

----------------------------------------------------------------------------
\* A history that grows past the messages shown at once, while the user
\* scrolls and changes the chat settings

InitScroll ==
    /\ InitCode
    /\ chat_sessions = <<NewSession(1)>>
    /\ active_session_index = 0
    /\ messages = <<>>
    /\ chat_input = <<>>
    /\ temp_attachment_path = ""
    /\ is_processing = FALSE
    /\ scroll_position = 0
    /\ max_conversation_length = DefaultMaxConversationLength
    /\ auto_scroll = TRUE
    /\ api_provider = "anthropic"
    /\ threads = <<>>
    /\ sends = 0
    /\ nextMid = 1
    /\ nextSid = 2
    /\ op = "init"
    /\ ret = "none"

NextScroll ==
    \/ /\ nextMid <= MaxScrollAppends
       /\ AddMessage(<<"a">>, FALSE, "")
    \/ \E d \in ScrollDirections : ScrollChat(d)
    \/ \E m \in ConversationLengths : SetMaxConversationLength(m)
    \/ \E b \in BOOLEAN : SetAutoScroll(b)

SpecScroll == InitScroll /\ [][NextScroll]_vars

----------------------------------------------------------------------------
\* Generated code: requests answered by replies with and without code, and
\* the operators of generated code applied to every message index

CodeEnvironments ==
    {env \in Environments :
        /\ env.fault = "none" /\ env.api_key /\ env.net = "response"
        /\ env.status = 200 /\ env.payload = "text"}

\* The message indices an operator is given: those of the history and one
\* on either side
MessageIndices == -1..(2 * MaxChatSends)

NextCode ==
    \/ /\ sends < MaxChatSends
       /\ SendMessage(<<"b">>, "ok", "none")
    \/ \E r \in DOMAIN threads, env \in CodeEnvironments : WorkerRun(r, env)
    \/ \E r \in DOMAIN threads : TimerFire(r, FALSE)
    \/ \E i \in MessageIndices : PreviewCode(i)
    \/ \E i \in MessageIndices : CopyCode(i)
    \/ \E would_succeed \in BOOLEAN : ExecuteCode(would_succeed)
    \/ CancelCode
    \/ ClearChat

SpecCode == InitScroll /\ [][NextCode]_vars

----------------------------------------------------------------------------
\* The operators of generated code as functions of the properties they
\* read: applied to a session whose own collection holds a User message and
\* one or two replies, with and without code

SessionHistories ==
    {<<NewMessage(1, <<"b">>, TRUE, "", 1, 1), ReplyMessage(2, t, 1, 1)>> :
        t \in ResponseTexts}
    \cup {<<NewMessage(1, <<"b">>, TRUE, "", 1, 1), ReplyMessage(2, t, 1, 1),
            ReplyMessage(3, u, 1, 1)>> : t \in ResponseTexts, u \in ResponseTexts}

InitPending ==
    /\ InitCode
    /\ \E h \in SessionHistories :
           chat_sessions = <<[NewSession(1) EXCEPT !.messages = h]>>
    /\ active_session_index = 0
    /\ messages = <<>>
    /\ chat_input = <<>>
    /\ temp_attachment_path = ""
    /\ is_processing = FALSE
    /\ scroll_position = 0
    /\ max_conversation_length = DefaultMaxConversationLength
    /\ auto_scroll = TRUE
    /\ api_provider = "anthropic"
    /\ threads = <<>>
    /\ sends = 0
    /\ nextMid = 4
    /\ nextSid = 2
    /\ op = "init"
    /\ ret = "none"

NextPending ==
    \/ \E i \in MessageIndices : PreviewCode(i)
    \/ \E i \in MessageIndices : CopyCode(i)
    \/ \E would_succeed \in BOOLEAN : ExecuteCode(would_succeed)
    \/ CancelCode
    \/ ClearChat

SpecPending == InitPending /\ [][NextPending]_vars

----------------------------------------------------------------------------
\* Claims

SendOps == {"send_message", "send_from_dialog"}

\* A request is outstanding from thread.start() until its completion has
\* been handed to handle_response
Outstanding == {r \in DOMAIN threads :
                   threads[r].st = "running" \/ threads[r].pending # <<>>}

\* The texts a send can carry
UserTexts == {Strip(t) : t \in InputTexts \cup MessageTexts} \ {<<>>}

\* C1: a send executed while is_processing is true is rejected: it appends no
\* message to any history, clears neither chat_input nor the pending
\* attachment and starts no thread, from the panel and from the dialog alike.
C1_BusySendRejected ==
    [][ (is_processing /\ op' \in SendOps) =>
            /\ messages' = messages
            /\ chat_sessions' = chat_sessions
            /\ threads' = threads
            /\ temp_attachment_path' = temp_attachment_path
            /\ (chat_input # <<>> => chat_input' # <<>>) ]_vars

\* C2: whatever completion handle_response is given, and however it returns,
\* is_processing is false when it has returned.
C2_FlagClearedOnReturn ==
    op = "handle_response" => ~is_processing

\* C3: at most one request is outstanding, and is_processing is true exactly
\* when one is.
C3_BusyIffOneOutstanding ==
    /\ Cardinality(Outstanding) <= 1
    /\ is_processing <=> Cardinality(Outstanding) = 1

C5_LastMessagesKept ==
    LET N == nextMid - 1
        M == max_conversation_length
        K == Min(N, M)
    IN  /\ Len(CurrentMessages) = K
        /\ \A i \in 1..K : CurrentMessages[i].mid = N - K + i

C5_Witness ==
    /\ nextMid - 1 > max_conversation_length
    /\ Len(CurrentMessages) = max_conversation_length
    /\ CurrentMessages[Len(CurrentMessages)].mid = nextMid - 1
    /\ op = "add_message"

\* C6: delete_chat with a single session is cancelled and changes neither
\* the sessions, the active index nor any message; so a session list that
\* holds a session never becomes empty.
C6_LastSessionKept ==
    [][ /\ (NumSessions = 1 /\ op' = "delete_chat") =>
               /\ ret' = "CANCELLED"
               /\ chat_sessions' = chat_sessions
               /\ active_session_index' = active_session_index
               /\ messages' = messages
        /\ NumSessions >= 1 => Len(chat_sessions') >= 1 ]_vars

C6_Witness ==
    /\ op = "delete_chat"
    /\ ret = "CANCELLED"
    /\ NumSessions = 1
    /\ nextSid > 2

\* C7: whenever there is a session, active_session_index is the index of
\* one: 0 <= active_session_index < number of sessions.
C7_ActiveIndexInRange ==
    NumSessions > 0 =>
        (0 <= active_session_index /\ active_session_index < NumSessions)

C7_Witness ==
    /\ op = "delete_chat"
    /\ ret = "FINISHED"
    /\ NumSessions = 2
    /\ active_session_index = 1
    /\ nextSid > 3

\* C8: an accepted send appends exactly one User message with the text sent
\* at the end of chat_sessions[active_session_index].messages, empties
\* chat_input and sets is_processing.
C8_SendAppendsToActiveSession ==
    [][ (ActiveIndexValid /\ op' \in SendOps /\ ret' = "FINISHED") =>
            LET before == chat_sessions[active_session_index + 1].messages
                after == chat_sessions'[active_session_index + 1].messages
            IN  /\ Len(after) = Len(before) + 1
                /\ SubSeq(after, 1, Len(before)) = before
                /\ after[Len(after)].is_user
                /\ after[Len(after)].message \in UserTexts
                /\ chat_input' = <<>>
                /\ is_processing' ]_vars

\* C9: a message belongs to the session that was active when it was
\* appended: the history that send_message and handle_response use for the
\* active session holds no message of another session.
C9_MessagesOwnedBySession ==
    ActiveIndexValid =>
        \A i \in DOMAIN CurrentMessages : CurrentMessages[i].owner = ActiveSid

\* C10: a send that fails validation (no provider, no API key, or a key that
\* is not valid) is cancelled and changes nothing: no message, the same
\* chat_input, attachment and is_processing, no thread.
C10_FailedValidationChangesNothing ==
    [][ \A message \in MessageTexts, fault \in SendFaults :
        \A v \in ValidationOutcomes \ {"ok"} :
            (MessageToSend(message, chat_input) # <<>> /\ SendMessage(message, v, fault))
                => /\ ret' = "CANCELLED_VALIDATION"
                   /\ UNCHANGED <<uiVars, threads>> ]_vars

C10_Witness ==
    /\ op = "send_message"
    /\ ret = "CANCELLED_VALIDATION"
    /\ chat_input # <<>>
    /\ temp_attachment_path # ""
    /\ threads = <<>>
    /\ messages = <<>>

\* C11: a send whose text (the message property, or chat_input when the
\* property is empty) is empty or only whitespace is rejected: no message
\* is appended and no thread is started.
C11_BlankTextRejected ==
    [][ \A message \in MessageTexts \cup BlankTexts :
        \A v \in ValidationOutcomes, fault \in SendFaults :
            ( /\ Strip(IF message # <<>> THEN message ELSE chat_input) = <<>>
              /\ SendMessage(message, v, fault) )
                => /\ messages' = messages
                   /\ chat_sessions' = chat_sessions
                   /\ threads' = threads ]_vars

C13_ReplyCarriesExtractedCode ==
    [][ \A r \in DOMAIN threads :
            ( /\ threads[r].pending # <<>>
              /\ Head(threads[r].pending).kind = "response"
              /\ TimerFire(r, FALSE) )
                => LET before == CurrentMessages
                       after == CurrentMessages'
                       m == after[Len(after)]
                       text == Head(threads[r].pending).text
                       extracted == format_code_for_execution(text)
                   IN  /\ Len(after) = Len(before) + 1
                       /\ SubSeq(after, 1, Len(before)) = before
                       /\ ~m.is_user
                       /\ m.message = text
                       /\ m.has_code <=> (extracted # NoCode /\ extracted # <<>>)
                       /\ m.has_code => m.code = extracted ]_vars

C13_Witness ==
    /\ op = "handle_response"
    /\ ret = "RESPONSE_SHOWN"
    /\ CurrentMessages # <<>>
    /\ LET m == CurrentMessages[Len(CurrentMessages)]
       IN  /\ ~m.is_user
           /\ m.has_code
           /\ m.code = <<"x">>

\* The texts that classify a completion as an authentication failure
AuthClassifications == {"Auth", "Authentication failed", "AuthError"}

MentionsAuth(text) == \E i \in DOMAIN text : text[i] \in AuthClassifications

\* The environments in which requests.post returns the given status
StatusEnvironments(status) ==
    {env \in Environments :
        /\ env.fault = "none" /\ env.api_key
        /\ env.net = "response" /\ env.status = status}

\* C14: when the generation call receives HTTP 401 the completion is an
\* error classified as an authentication failure, unlike the completion of
\* another non-200 status with the same body, and the Assistant message
\* that shows it names the "Auth" classification; is_processing ends false.
C14_UnauthorizedClassified ==
    [][ /\ \A r \in DOMAIN threads : \A env \in StatusEnvironments(401) :
               WorkerRun(r, env) =>
                   LET c == threads'[r].pending[Len(threads'[r].pending)]
                   IN  /\ c.kind = "error"
                       /\ MentionsAuth(c.text)
                       /\ \A other \in StatusEnvironments(500) :
                              run(threads[r].provider, other) # <<c>>
        /\ \A r \in DOMAIN threads :
               ( /\ threads[r].pending # <<>>
                 /\ Head(threads[r].pending).kind = "error"
                 /\ MentionsAuth(Head(threads[r].pending).text)
                 /\ TimerFire(r, FALSE) )
                   => /\ ~is_processing'
                      /\ MentionsAuth(CurrentMessages'[Len(CurrentMessages')].message)
      ]_vars

\* The environments in which requests.post exceeds its timeout
TimeoutEnvironments ==
    {env \in Environments :
        env.fault = "none" /\ env.api_key /\ env.net = "timeout"}

TimedOutText(provider) ==
    <<"Request to ", ProviderName(provider), " API timed out.">>

\* No outcome other than a timeout gives the completion of a timeout
TimeoutIsDistinct ==
    \A p \in Providers : \A other \in Environments \ TimeoutEnvironments :
        \A i \in DOMAIN run(p, other) :
            run(p, other)[i] # [kind |-> "error", text |-> TimedOutText(p)]

\* C15: when the network call of a provider exceeds its timeout the worker
\* ends normally having registered one error completion that says the
\* request timed out, a completion no other outcome produces; applied, it
\* is shown as an "Error: " message of the history, and handle_response
\* returns normally.
C15_TimeoutClassified ==
    [][ /\ op' = "worker_run" =>
               \A r \in {x \in DOMAIN threads : threads[x].st = "running"} :
               \A env \in TimeoutEnvironments :
                   (threads'[r].st = "finished" /\ WorkerRun(r, env)) =>
                       LET p == threads[r].provider
                           c == [kind |-> "error", text |-> TimedOutText(p)]
                       IN  /\ threads'[r].st = "finished"
                           /\ threads'[r].pending = threads[r].pending \o <<c>>
                           /\ TimeoutIsDistinct
        /\ op' = "handle_response" =>
               \A r \in DOMAIN threads :
                   ( /\ threads[r].pending # <<>>
                     /\ Head(threads[r].pending).text = TimedOutText(threads[r].provider)
                     /\ TimerFire(r, FALSE) )
                       => /\ ret' = "ERROR_SHOWN"
                          /\ ~is_processing'
                          /\ CurrentMessages'[Len(CurrentMessages')].message =
                                 <<"Error: ">> \o TimedOutText(threads[r].provider)
      ]_vars

C15_Witness ==
    /\ op = "handle_response"
    /\ ret = "ERROR_SHOWN"
    /\ CurrentMessages # <<>>
    /\ \E p \in Providers :
           CurrentMessages[Len(CurrentMessages)].message =
               <<"Error: ">> \o TimedOutText(p)

\* The fenced blocks of a text from index i on: for each pair of an opening
\* and the next closing fence, the first and last index between them
RECURSIVE FencedBlocks(_, _)
FencedBlocks(t, i) ==
    LET o == FindFrom(t, i, Fence)
        c == IF o = 0 THEN 0 ELSE FindFrom(t, o + 3, Fence)
    IN  IF c = 0 THEN <<>>
        ELSE <<[from |-> o + 3, to |-> c - 1]>> \o FencedBlocks(t, c + 3)

\* What lies between the fences of block b, without the language tag
RawContent(t, b) == SubSeq(t, b.from + TagLength(t, b.from), b.to)

\* The same without the whitespace that follows the opening fence or the tag
Captured(t, b) == SubSeq(t, SkipSpace(t, b.from + TagLength(t, b.from)), b.to)

\* The index of the first longest text of a non-empty sequence of texts
FirstLongest(xs) ==
    CHOOSE k \in DOMAIN xs :
        /\ \A j \in DOMAIN xs : Len(xs[j]) <= Len(xs[k])
        /\ \A j \in 1..(k - 1) : Len(xs[j]) < Len(xs[k])

IsSubstring(r, t) ==
    \E i \in 1..(Len(t) + 1), j \in 0..Len(t) : SubSeq(t, i, j) = r

\* The reply that handle_response has just shown
ShownReply == CurrentMessages[Len(CurrentMessages)]

ReplyShown == op = "handle_response" /\ ret = "RESPONSE_SHOWN"

\* C16 as stated: for a reply with a fenced block, the code extracted is the
\* content of the longest fenced block, the first of the longest, as it
\* stands in the reply.
C16_LongestBlockVerbatim ==
    ReplyShown =>
        LET t == ShownReply.message
            bs == FencedBlocks(t, 1)
            raws == [k \in DOMAIN bs |-> RawContent(t, bs[k])]
        IN  bs # <<>> =>
                LET e == raws[FirstLongest(raws)]
                IN  /\ ShownReply.has_code <=> e # <<>>
                    /\ ShownReply.has_code => ShownReply.code = e

\* C16 amended: for a reply with a fenced block, the code extracted is the
\* content of the block that is longest once the whitespace after its
\* opening fence and tag is dropped (trailing whitespace counted), the first
\* of these, with leading and trailing whitespace removed; it is a
\* contiguous part of the reply.
C16_LongestBlockTrimmed ==
    ReplyShown =>
        LET t == ShownReply.message
            bs == FencedBlocks(t, 1)
            caps == [k \in DOMAIN bs |-> Captured(t, bs[k])]
        IN  bs # <<>> =>
                LET e == Strip(caps[FirstLongest(caps)])
                IN  /\ IsSubstring(e, t)
                    /\ ShownReply.has_code <=> e # <<>>
                    /\ ShownReply.has_code => ShownReply.code = e

C16_Witness ==
    /\ ReplyShown
    /\ ShownReply.message =
           Fence \o <<"a", " ">> \o Fence \o <<"\n">> \o Fence \o <<"a", "a">> \o Fence
    /\ ShownReply.has_code
    /\ ShownReply.code = <<"a">>

\* No line of the text starts, after leading whitespace, with 'import bpy'
\* or 'from bpy'
NoImportLine(t) ==
    \A i \in 1..Len(t) :
        (StartsWithAt(t, i, W_import_bpy) \/ StartsWithAt(t, i, W_from_bpy))
            => \E k \in 1..(i - 1) :
                   /\ ~IsSpace(t[k])
                   /\ \A j \in k..(i - 1) : t[j] # "\n"

\* C17: for a reply with no fenced block and no line that starts with an
\* import of bpy, format_code_for_execution gives None: the reply is shown
\* without code and handle_response returns normally.
C17_NoCodeInProse ==
    ReplyShown =>
        LET t == ShownReply.message
        IN  (FencedBlocks(t, 1) = <<>> /\ NoImportLine(t)) =>
                /\ format_code_for_execution(t) = NoCode
                /\ ~ShownReply.has_code
                /\ ShownReply.code = <<>>

C17_Witness ==
    /\ ReplyShown
    /\ ShownReply.message = <<"a", " ">> \o W_import_bpy
    /\ ~ShownReply.has_code
    /\ ~is_processing

\* The messages appended while the session with id sid was active, wherever
\* they are kept
HistoryOf(sid, sessions, legacy) ==
    {legacy[i] : i \in {j \in DOMAIN legacy : legacy[j].owner = sid}}
    \cup UNION {{sessions[k].messages[i] :
                    i \in {j \in DOMAIN sessions[k].messages :
                              sessions[k].messages[j].owner = sid}} :
                k \in DOMAIN sessions}

\* C18: after clear_chat on the active session no message that send_message
\* or handle_response appended while that session was active is left, the
\* scroll position is 0, and the number of sessions and the active index
\* are what they were.
C18_ClearChatEmptiesHistory ==
    [][ (ActiveIndexValid /\ ClearChat) =>
            /\ HistoryOf(ActiveSid, chat_sessions', messages') = {}
            /\ scroll_position' = 0
            /\ Len(chat_sessions') = Len(chat_sessions)
            /\ active_session_index' = active_session_index ]_vars

\* C19: when create_context_info or the creation or start of the thread
\* raises after execute has set is_processing, the operator ends with
\* is_processing false; is_processing is not true when no request is
\* outstanding.
C19_FlagClearedAfterSendFault ==
    [][ /\ \A message \in MessageTexts \cup BlankTexts :
               ( /\ MessageToSend(message, chat_input) # <<>>
                 /\ ActiveIndexValid
                 /\ SendMessage(message, "ok", "raised") )
                   => ~is_processing'
        /\ is_processing' => Outstanding' # {} ]_vars

\* An Assistant message for request r has been appended to some history
Answered(r) ==
    \/ \E i \in DOMAIN messages : ~messages[i].is_user /\ messages[i].req = r
    \/ \E k \in DOMAIN chat_sessions : \E i \in DOMAIN chat_sessions[k].messages :
           /\ ~chat_sessions[k].messages[i].is_user
           /\ chat_sessions[k].messages[i].req = r

\* C20: with the worker thread and the registered timers scheduled fairly,
\* every accepted send is eventually followed by a state where an Assistant
\* message for its request has been appended and is_processing is false.
C20_SendEventuallyAnswered ==
    \A r \in 1..MaxRequests :
        (r \in DOMAIN threads) ~> (Answered(r) /\ ~is_processing)

\* The histories of the add-on: the legacy collection and the collection of
\* every session
Histories == {messages} \cup {chat_sessions[k].messages : k \in DOMAIN chat_sessions}

\* C21: with max_conversation_length = M > 0, after an accepted send, an
\* applied reply or an applied error no history holds more than M messages,
\* and the messages kept are the newest, in the order they were appended.
C21_HistoryWithinLimit ==
    ( /\ max_conversation_length > 0
      /\ \/ op \in SendOps /\ ret = "FINISHED"
         \/ op = "handle_response" /\ ret \in {"RESPONSE_SHOWN", "ERROR_SHOWN"} )
        => \A h \in Histories :
               /\ Len(h) <= max_conversation_length
               /\ \A i \in DOMAIN h : h[i].mid = nextMid - 1 - Len(h) + i

\* C22: after an append that evicts, whatever the history limit in effect
\* and whether auto_scroll is set or not, the scroll position is the index
\* of a message of the history: 0 <= scroll_position < number of messages.
C22_ScrollPositionInRange ==
    [][ \A t \in {<<"a">>} :
            ( /\ max_conversation_length > 0
              /\ Len(CurrentMessages) + 1 > max_conversation_length
              /\ AddMessage(t, FALSE, "") )
                => ( CurrentMessages' # <<>> =>
                         /\ 0 <= scroll_position'
                         /\ scroll_position' < Len(CurrentMessages') ) ]_vars

\* The steps taken on the UI thread: operators, the panel and timers
UIThreadOps ==
    {"send_message", "send_from_dialog", "handle_response", "add_message",
     "clear_chat", "scroll_chat", "draw", "new_chat", "delete_chat",
     "select_session", "edit_input", "attach_file", "clear_attachment",
     "preview_code", "execute_code", "cancel_code", "copy_code"}

ResponseEnvironments ==
    {env \in Environments :
        env.fault = "none" /\ env.api_key /\ env.net = "response"}

\* C24: for each provider and every combination of HTTP status and payload
\* shape, send_request delivers one completion, a success when the status
\* is 200 and the payload holds the expected text, and an error for every
\* other combination; a completion is a response or an error, never both.
C24_SuccessIffWellFormed ==
    [][ \A env \in ResponseEnvironments :
            WorkerRun(1, env) =>
                LET done == threads'[1].pending
                IN  /\ Len(done) = 1
                    /\ done[1].kind \in {"response", "error"}
                    /\ done[1].kind = "response" <=>
                           (env.status = 200 /\ env.payload = "text")
                    /\ done[1].kind = "response" => done[1].text = env.text ]_vars

\* The indices at which a line of the text starts
LineStarts(t) == {i \in 1..(Len(t) + 1) : i = 1 \/ t[i - 1] = "\n"}

\* The line that starts at index i starts, after leading blanks, with
\* 'import bpy' or 'from bpy'
IsImportLineAt(t, i) ==
    \E j \in i..Len(t) :
        /\ \A k \in i..(j - 1) : t[k] = " "
        /\ StartsWithAt(t, j, W_import_bpy) \/ StartsWithAt(t, j, W_from_bpy)

ImportLineStarts(t) == {i \in LineStarts(t) : IsImportLineAt(t, i)}

\* C25: the fallback rule is applied only to a reply with no fenced block:
\* its code is then the text from the start of the first line that starts,
\* after leading whitespace, with 'import bpy' or 'from bpy' to the end of
\* the reply, with no line before it, and there is no code without such a
\* line; the code of a reply with a fenced block is the content of a block.
C25_FallbackFromFirstImportLine ==
    ReplyShown =>
        LET t == ShownReply.message
            bs == FencedBlocks(t, 1)
            starts == ImportLineStarts(t)
        IN  IF bs = <<>>
            THEN IF starts = {}
                 THEN ~ShownReply.has_code
                 ELSE LET first == CHOOSE i \in starts : \A j \in starts : i <= j
                      IN  /\ ShownReply.has_code
                          /\ ShownReply.code = SubSeq(t, first, Len(t))
            ELSE ShownReply.has_code =>
                     \E k \in DOMAIN bs : ShownReply.code = Strip(Captured(t, bs[k]))

C25_Witness ==
    /\ ReplyShown
    /\ ShownReply.message = <<"a", "\n", " ">> \o W_import_bpy \o <<"\n", "a">>
    /\ ShownReply.has_code
    /\ ShownReply.code = <<" ">> \o W_import_bpy \o <<"\n", "a">>

\* The history holds the User message of request r
HoldsRequest(h, r) ==
    \E i \in DOMAIN h : h[i].is_user /\ h[i].mid = threads[r].mid

\* C26: the Assistant message of a request is appended to the history that
\* received the User message of that request, even when new_chat,
\* delete_chat or the selection of a session has changed the active
\* session while the request was in flight.
C26_ReplyJoinsItsRequest ==
    [][ \A r \in DOMAIN threads :
            ( /\ threads[r].pending # <<>>
              /\ ActiveIndexValid
              /\ TimerFire(r, FALSE) )
                => /\ Answered(r)'
                   /\ messages' # messages => HoldsRequest(messages, r)
                   /\ \A k \in DOMAIN chat_sessions :
                          chat_sessions'[k].messages # chat_sessions[k].messages
                              => HoldsRequest(chat_sessions[k].messages, r) ]_vars

C26_Witness ==
    /\ op = "handle_response"
    /\ ret = "RESPONSE_SHOWN"
    /\ ActiveIndexValid
    /\ threads[1].pending = <<>>
    /\ ActiveSid # threads[1].sid
    /\ \E i, j \in DOMAIN messages :
           /\ i < j
           /\ messages[i].is_user /\ messages[i].req = 1
           /\ ~messages[j].is_user /\ messages[j].req = 1

\* C27: delete_chat on a session that is not the active one leaves the
\* session that was active as the active one, whether the deleted session
\* comes before or after it in the list.
C27_DeleteKeepsActiveSession ==
    [][ \A i \in 0..(NumSessions - 1) :
            ( /\ ActiveIndexValid
              /\ i # active_session_index
              /\ DeleteChat(i) )
                => /\ active_session_index' + 1 \in DOMAIN chat_sessions'
                   /\ chat_sessions'[active_session_index' + 1].sid = ActiveSid ]_vars

\* C28: generated code is never executed as a side effect of receiving a
\* response: handle_response leaves the pending code and the executed codes
\* as they are; a code is given to safe_execute_code only by execute_code,
\* with has_pending_code true, and it is pending_code; and pending_code gets
\* a code only from preview_code, the code of a message of the session.
C28_CodeRunsOnlyOnRequest ==
    [][ /\ op' = "handle_response" =>
               UNCHANGED <<has_pending_code, pending_code, executed>>
        /\ executed' # executed =>
               /\ op' = "execute_code"
               /\ has_pending_code
               /\ pending_code # <<>>
               /\ executed' = Append(executed, pending_code)
        /\ (pending_code' # pending_code /\ pending_code' # <<>>) =>
               /\ op' = "preview_code"
               /\ has_pending_code'
               /\ \E h \in Histories : \E i \in DOMAIN h :
                      h[i].has_code /\ h[i].code = pending_code' ]_vars

C28_Witness ==
    /\ ReplyShown
    /\ ShownReply.has_code
    /\ ShownReply.code = <<"x">>
    /\ executed = <<>>
    /\ ~has_pending_code
    /\ pending_code = <<>>

\* C29: for a reply with code that handle_response appended at index i of
\* the history, preview_code with message_index = i succeeds and makes the
\* code of that message the pending code, and copy_code with the same index
\* copies the code of the same message.
C29_PreviewAndCopyAgree ==
    [][ \A i \in MessageIndices :
            ( /\ ActiveIndexValid
              /\ i + 1 \in DOMAIN CurrentMessages
              /\ ~CurrentMessages[i + 1].is_user
              /\ CurrentMessages[i + 1].has_code )
                => /\ PreviewCode(i) =>
                          /\ ret' = "FINISHED"
                          /\ has_pending_code'
                          /\ pending_code' = CurrentMessages[i + 1].code
                   /\ CopyCode(i) =>
                          /\ ret' = "FINISHED"
                          /\ clipboard' = CurrentMessages[i + 1].code ]_vars

====
